---- MODULE Spec2Model ----
(***************************************************************************)
(* A model of holidayapi-rust: key and version validation, construction of *)
(* the HolidayAPI handle, the five request builders with their setters,    *)
(* and the terminal operations get_raw / get_full / get, which dispatch    *)
(* one HTTP GET through HolidayAPI::request.                               *)
(*                                                                         *)
(* Strings are sequences of one-character strings, so that formatting,     *)
(* lower-casing, regex matching and URL parsing are computed character by  *)
(* character.  Option<T> is a sequence of length at most one.              *)
(***************************************************************************)
EXTENDS Integers, Sequences, FiniteSets, TLC

VARIABLES
    api,          \* Option<HolidayAPI>: the handle the caller holds
    ctor_result,  \* Option<Result>: what the last constructor call returned
    builder,      \* slot -> Option<request builder> held by the caller
    gets,         \* number of HTTP GETs sent so far
    in_flight,    \* Option: the terminal operation awaiting its response
    outcome,      \* Option: what the terminal operation that just ended returned
    setter_calls, \* number of setter calls made so far
    last_op       \* the operation that produced the current state

vars == <<api, ctor_result, builder, gets, in_flight, outcome, setter_calls, last_op>>

---------------------------------------------------------------------------
(* Bounds of the model *)

\* extra characters put before or after a key given to the validator
MaxAffix == 1
\* setter calls in one run of the builders
MaxSetterCalls == 2
\* setter calls before a terminal operation in one run of the whole client
MaxChain == 1
\* terminal operations (HTTP GETs) in one run
MaxGets == 1

---------------------------------------------------------------------------
(* Option and Result *)

None == <<>>
Some(x) == <<x>>
Ok(v) == [tag |-> "Ok", value |-> v]
Err(kind, payload) == [tag |-> kind, value |-> payload]
Unit == <<>>

---------------------------------------------------------------------------
(* String literals of the source *)

S_base_prefix == <<"h","t","t","p","s",":","/","/","h","o","l","i","d","a","y","a","p","i",".","c","o","m","/","v">>
S_invalid_version == <<"I","n","v","a","l","i","d"," ","v","e","r","s","i","o","n",":"," ">>
S_please_choose == <<","," ","p","l","e","a","s","e"," ","c","h","o","o","s","e",":"," ">>
S_key_eq == <<"?","k","e","y","=">>
S_true == <<"t","r","u","e">>
S_false == <<"f","a","l","s","e">>
S_country == <<"c","o","u","n","t","r","y">>
S_search == <<"s","e","a","r","c","h">>
S_public == <<"p","u","b","l","i","c">>
S_pretty == <<"p","r","e","t","t","y">>
S_year == <<"y","e","a","r">>
S_month == <<"m","o","n","t","h">>
S_day == <<"d","a","y">>
S_subdivisions == <<"s","u","b","d","i","v","i","s","i","o","n","s">>
S_language == <<"l","a","n","g","u","a","g","e">>
S_previous == <<"p","r","e","v","i","o","u","s">>
S_upcoming == <<"u","p","c","o","m","i","n","g">>
S_days == <<"d","a","y","s">>
S_end == <<"e","n","d">>

\* tests::EXPIRED_KEY, tests::INVALID_KEY and the key of the doc examples
EXPIRED_KEY == <<"d","a","a","a","a","a","a","b","-","a","a","a","a","-","a","a","a","a","-","a","a","a","a","-","2","a","a","a","a","d","a","3","7","e","1","4">>
INVALID_KEY == <<"i","n","v","a","l","i","d","-","k","e","y","-","f","o","r","m","a","t">>
DOC_KEY == <<"0","0","0","0","0","0","0","0","-","0","0","0","0","-","0","0","0","0","-","0","0","0","0","-","0","0","0","0","0","0","0","0","0","0","0","0">>

---------------------------------------------------------------------------
(* Formatting: i32 and bool Display *)

Digits == <<"0","1","2","3","4","5","6","7","8","9">>

RECURSIVE NatToString(_)
NatToString(n) ==
    IF n < 10 THEN <<Digits[n + 1]>>
    ELSE Append(NatToString(n \div 10), Digits[(n % 10) + 1])

I32ToString(n) == IF n < 0 THEN <<"-">> \o NatToString(-n) ELSE NatToString(n)

BoolToString(b) == IF b THEN S_true ELSE S_false

---------------------------------------------------------------------------
(* HolidayAPI::is_valid_key: the regex                                     *)
(*   [0-9a-f]{8}-[0-9a-f]{4}-[0-9a-f]{4}-[0-9a-f]{4}-[0-9a-f]{12}          *)
(* searched anywhere in the key (Regex::is_match is unanchored, and the    *)
(* class is the lower-case one as written).                                *)

HexLower == {"0","1","2","3","4","5","6","7","8","9","a","b","c","d","e","f"}

\* the regex as a sequence of items: "h" is the class [0-9a-f], "-" the literal
RECURSIVE Repeat(_, _)
Repeat(item, n) == IF n = 0 THEN <<>> ELSE <<item>> \o Repeat(item, n - 1)

uuid_regex ==
    Repeat("h", 8) \o <<"-">> \o Repeat("h", 4) \o <<"-">> \o Repeat("h", 4)
        \o <<"-">> \o Repeat("h", 4) \o <<"-">> \o Repeat("h", 12)

ItemMatches(item, c) == IF item = "h" THEN c \in HexLower ELSE c = item

\* the regex matches the text starting at position i
MatchesAt(re, s, i) ==
    /\ i + Len(re) - 1 <= Len(s)
    /\ \A j \in 1..Len(re) : ItemMatches(re[j], s[i + j - 1])

Regex_is_match(re, s) == \E i \in 1..(Len(s) + 1) : MatchesAt(re, s, i)

is_valid_key(key) ==
    IF Regex_is_match(uuid_regex, key)
    THEN Ok(Unit)
    ELSE Err("InvalidKeyFormat", key)

---------------------------------------------------------------------------
(* HolidayAPI::is_valid_version *)

valid_versions == {1}

is_valid_version_lax(version) ==
    IF version \notin {1, 2}
    THEN Err("InvalidVersion",
             S_invalid_version \o I32ToString(version) \o S_please_choose \o <<"[","1","]">>)
    ELSE Ok(Unit)

is_valid_version(version) ==
    IF version \notin valid_versions
    THEN Err("InvalidVersion",
             S_invalid_version \o I32ToString(version) \o S_please_choose \o <<"[","1","]">>)
    ELSE Ok(Unit)

---------------------------------------------------------------------------
(* HolidayAPI::construct_api *)

construct_api(key, version) ==
    [base_url |-> S_base_prefix \o I32ToString(version) \o <<"/">>, key |-> key]

---------------------------------------------------------------------------
(* HashMap<String, String> as a function from names to values *)

HashMap_new == <<>>

HashMap_insert(m, k, v) ==
    [x \in (DOMAIN m) \cup {k} |-> IF x = k THEN v ELSE m[x]]

---------------------------------------------------------------------------
(* The request builders: { parameters, api }.  ty is the Rust type of the  *)
(* builder, which selects the methods that can be called on it.            *)

CountriesRequest_new(a) ==
    [ty |-> "CountriesRequest", parameters |-> HashMap_new, api |-> a]

\* a builder that keeps the country as the key of its handle
HolidaysRequest_new_rekeyed(a, country, year) ==
    LET holiday == [ty |-> "HolidaysRequest", parameters |-> HashMap_new,
                    api |-> [a EXCEPT !.key = country]]
        h1 == [holiday EXCEPT !.parameters = HashMap_insert(@, S_country, country)]
    IN  [h1 EXCEPT !.parameters = HashMap_insert(@, S_year, I32ToString(year))]

HolidaysRequest_new(a, country, year) ==
    LET holiday == [ty |-> "HolidaysRequest", parameters |-> HashMap_new, api |-> a]
        h1 == [holiday EXCEPT !.parameters = HashMap_insert(@, S_country, country)]
    IN  [h1 EXCEPT !.parameters = HashMap_insert(@, S_year, I32ToString(year))]

WorkdayRequest_new(a, country, start, days) ==
    LET workday == [ty |-> "WorkdayRequest", parameters |-> HashMap_new, api |-> a]
        w1 == [workday EXCEPT !.parameters = HashMap_insert(@, S_country, country)]
        w2 == [w1 EXCEPT !.parameters = HashMap_insert(@, S_year, start)]
    IN  [w2 EXCEPT !.parameters = HashMap_insert(@, S_days, I32ToString(days))]

WorkdaysRequest_new(a, country, start, days) ==
    LET workdays == [ty |-> "WorkdaysRequest", parameters |-> HashMap_new, api |-> a]
        w1 == [workdays EXCEPT !.parameters = HashMap_insert(@, S_country, country)]
        w2 == [w1 EXCEPT !.parameters = HashMap_insert(@, S_year, start)]
    IN  [w2 EXCEPT !.parameters = HashMap_insert(@, S_end, days)]

LanguagesRequest_new(a) ==
    [ty |-> "LanguagesRequest", parameters |-> HashMap_new, api |-> a]

(* The setters.  Each takes &mut self and returns self.to_owned(); the     *)
(* operator gives self after the call, which is also the value returned.   *)

CountriesRequest_country(self, country) ==
    [self EXCEPT !.parameters = HashMap_insert(@, S_country, country)]

CountriesRequest_search(self, search) ==
    [self EXCEPT !.parameters = HashMap_insert(@, S_search, search)]

CountriesRequest_public(self, public) ==
    [self EXCEPT !.parameters = HashMap_insert(@, S_public, BoolToString(public))]

CountriesRequest_pretty(self, pretty) ==
    [self EXCEPT !.parameters = HashMap_insert(@, S_pretty, BoolToString(pretty))]

HolidaysRequest_month(self, month) ==
    [self EXCEPT !.parameters = HashMap_insert(@, S_month, I32ToString(month))]

HolidaysRequest_day(self, day) ==
    [self EXCEPT !.parameters = HashMap_insert(@, S_day, I32ToString(day))]

HolidaysRequest_public(self, public) ==
    [self EXCEPT !.parameters = HashMap_insert(@, S_public, BoolToString(public))]

HolidaysRequest_subdivisions(self, subdivisions) ==
    [self EXCEPT !.parameters = HashMap_insert(@, S_subdivisions, BoolToString(subdivisions))]

HolidaysRequest_search(self, search) ==
    [self EXCEPT !.parameters = HashMap_insert(@, S_search, search)]

\* language written under the key of the country
HolidaysRequest_language_as_country(self, language) ==
    [self EXCEPT !.parameters = HashMap_insert(@, S_country, language)]

HolidaysRequest_language(self, language) ==
    [self EXCEPT !.parameters = HashMap_insert(@, S_language, language)]

\* previous written under the key of upcoming
HolidaysRequest_previous_as_upcoming(self, previous) ==
    [self EXCEPT !.parameters = HashMap_insert(@, S_upcoming, BoolToString(previous))]

HolidaysRequest_previous(self, previous) ==
    [self EXCEPT !.parameters = HashMap_insert(@, S_previous, BoolToString(previous))]

\* upcoming that takes previous out of the mapping
HolidaysRequest_upcoming_exclusive(self, upcoming) ==
    [self EXCEPT !.parameters =
        HashMap_insert([x \in (DOMAIN @) \ {S_previous} |-> @[x]],
                       S_upcoming, BoolToString(upcoming))]

HolidaysRequest_upcoming(self, upcoming) ==
    [self EXCEPT !.parameters = HashMap_insert(@, S_upcoming, BoolToString(upcoming))]

HolidaysRequest_pretty(self, pretty) ==
    [self EXCEPT !.parameters = HashMap_insert(@, S_pretty, BoolToString(pretty))]

WorkdayRequest_pretty(self, pretty) ==
    [self EXCEPT !.parameters = HashMap_insert(@, S_pretty, BoolToString(pretty))]

WorkdaysRequest_pretty(self, pretty) ==
    [self EXCEPT !.parameters = HashMap_insert(@, S_pretty, BoolToString(pretty))]

LanguagesRequest_language(self, language) ==
    [self EXCEPT !.parameters = HashMap_insert(@, S_language, language)]

LanguagesRequest_search(self, search) ==
    [self EXCEPT !.parameters = HashMap_insert(@, S_search, search)]

LanguagesRequest_pretty(self, pretty) ==
    [self EXCEPT !.parameters = HashMap_insert(@, S_pretty, BoolToString(pretty))]

\* the setters each builder type has, with the type of the argument
SetterSig(ty) ==
    CASE ty = "CountriesRequest" ->
           [country |-> "str", search |-> "str", public |-> "bool", pretty |-> "bool"]
      [] ty = "HolidaysRequest" ->
           [month |-> "i32", day |-> "i32", public |-> "bool", subdivisions |-> "bool",
            search |-> "str", language |-> "str", previous |-> "bool",
            upcoming |-> "bool", pretty |-> "bool"]
      [] ty = "WorkdayRequest" -> [pretty |-> "bool"]
      [] ty = "WorkdaysRequest" -> [pretty |-> "bool"]
      [] ty = "LanguagesRequest" ->
           [language |-> "str", search |-> "str", pretty |-> "bool"]

\* the call self.<setter>(arg)
CallSetter(self, setter, arg) ==
    CASE self.ty = "CountriesRequest" ->
           (CASE setter = "country" -> CountriesRequest_country(self, arg)
              [] setter = "search" -> CountriesRequest_search(self, arg)
              [] setter = "public" -> CountriesRequest_public(self, arg)
              [] setter = "pretty" -> CountriesRequest_pretty(self, arg))
      [] self.ty = "HolidaysRequest" ->
           (CASE setter = "month" -> HolidaysRequest_month(self, arg)
              [] setter = "day" -> HolidaysRequest_day(self, arg)
              [] setter = "public" -> HolidaysRequest_public(self, arg)
              [] setter = "subdivisions" -> HolidaysRequest_subdivisions(self, arg)
              [] setter = "search" -> HolidaysRequest_search(self, arg)
              [] setter = "language" -> HolidaysRequest_language(self, arg)
              [] setter = "previous" -> HolidaysRequest_previous(self, arg)
              [] setter = "upcoming" -> HolidaysRequest_upcoming(self, arg)
              [] setter = "pretty" -> HolidaysRequest_pretty(self, arg))
      [] self.ty = "WorkdayRequest" ->
           (CASE setter = "pretty" -> WorkdayRequest_pretty(self, arg))
      [] self.ty = "WorkdaysRequest" ->
           (CASE setter = "pretty" -> WorkdaysRequest_pretty(self, arg))
      [] self.ty = "LanguagesRequest" ->
           (CASE setter = "language" -> LanguagesRequest_language(self, arg)
              [] setter = "search" -> LanguagesRequest_search(self, arg)
              [] setter = "pretty" -> LanguagesRequest_pretty(self, arg))

---------------------------------------------------------------------------
(* Endpoint: its Display (strum) and str::to_ascii_lowercase *)

Endpoint_to_string(endpoint) ==
    CASE endpoint = "Countries" -> <<"C","o","u","n","t","r","i","e","s">>
      [] endpoint = "Holidays" -> <<"H","o","l","i","d","a","y","s">>
      [] endpoint = "Languages" -> <<"L","a","n","g","u","a","g","e","s">>
      [] endpoint = "Workday" -> <<"W","o","r","k","d","a","y">>
      [] endpoint = "Workdays" -> <<"W","o","r","k","d","a","y","s">>

AsciiUpper == <<"A","B","C","D","E","F","G","H","I","J","K","L","M","N","O","P","Q","R","S","T","U","V","W","X","Y","Z">>
AsciiLower == <<"a","b","c","d","e","f","g","h","i","j","k","l","m","n","o","p","q","r","s","t","u","v","w","x","y","z">>

CharToLower(c) ==
    IF \E i \in 1..26 : AsciiUpper[i] = c
    THEN AsciiLower[CHOOSE i \in 1..26 : AsciiUpper[i] = c]
    ELSE c

CharToUpper(c) ==
    IF \E i \in 1..26 : AsciiLower[i] = c
    THEN AsciiUpper[CHOOSE i \in 1..26 : AsciiLower[i] = c]
    ELSE c

to_ascii_lowercase(s) == [i \in 1..Len(s) |-> CharToLower(s[i])]

to_ascii_uppercase(s) == [i \in 1..Len(s) |-> CharToUpper(s[i])]

---------------------------------------------------------------------------
(* Url: the text before the query, the query and the fragment.  Url::parse *)
(* ends the query at the first '#', which starts the fragment.             *)

\* the first and the last position of c in s, 0 when there is none
IndexOf(s, c) ==
    LET at == {i \in 1..Len(s) : s[i] = c}
    IN  IF at = {} THEN 0 ELSE CHOOSE i \in at : \A j \in at : i <= j

LastIndexOf(s, c) ==
    LET at == {i \in 1..Len(s) : s[i] = c}
    IN  IF at = {} THEN 0 ELSE CHOOSE i \in at : \A j \in at : i >= j

Url_parse(input) ==
    LET h == IndexOf(input, "#")
        head == IF h = 0 THEN input ELSE SubSeq(input, 1, h - 1)
        q == IndexOf(head, "?")
    IN  [prefix |-> IF q = 0 THEN head ELSE SubSeq(head, 1, q - 1),
         query |-> IF q = 0 THEN None ELSE Some(SubSeq(head, q + 1, Len(head))),
         fragment |-> IF h = 0 THEN None ELSE Some(SubSeq(input, h + 1, Len(input)))]

\* Url::join of a relative path: it replaces what follows the last '/'
Url_join(url, rel) ==
    [prefix |-> SubSeq(url.prefix, 1, LastIndexOf(url.prefix, "/")) \o rel,
     query |-> None,
     fragment |-> None]

\* Display of a Url
Url_to_string(url) ==
    url.prefix
        \o (IF url.query = None THEN <<>> ELSE <<"?">> \o url.query[1])
        \o (IF url.fragment = None THEN <<>> ELSE <<"#">> \o url.fragment[1])

\* application/x-www-form-urlencoded: letters, digits and "*-._" are kept,
\* a space becomes '+', any other byte is %XX (those of the inputs are listed)
Unreserved ==
    {AsciiUpper[i] : i \in 1..26} \cup {AsciiLower[i] : i \in 1..26}
        \cup {Digits[i] : i \in 1..10} \cup {"*", "-", ".", "_"}

byte_serialize_char(c) ==
    CASE c \in Unreserved -> <<c>>
      [] c = " " -> <<"+">>
      [] c = "#" -> <<"%","2","3">>
      [] c = "&" -> <<"%","2","6">>
      [] c = "=" -> <<"%","3","D">>
      [] c = "/" -> <<"%","2","F">>
      [] c = ":" -> <<"%","3","A">>

RECURSIVE byte_serialize(_)
byte_serialize(s) ==
    IF s = <<>> THEN <<>>
    ELSE byte_serialize_char(Head(s)) \o byte_serialize(Tail(s))

\* Serializer::extend_pairs: "&" between pairs, name=value
RECURSIVE extend_pairs(_, _)
extend_pairs(query, pairs) ==
    IF pairs = <<>> THEN query
    ELSE extend_pairs(
            query \o (IF query = <<>> THEN <<>> ELSE <<"&">>)
                \o byte_serialize(Head(pairs)[1]) \o <<"=">>
                \o byte_serialize(Head(pairs)[2]),
            Tail(pairs))

\* Url::parse_with_params: parse, then append the pairs to the query
Url_parse_with_params(input, pairs) ==
    LET url == Url_parse(input)
    IN  [url EXCEPT
            !.query = Some(extend_pairs(IF @ = None THEN <<>> ELSE @[1], pairs))]

\* the orders in which a HashMap may hand out its entries: each key once
IsOrder(order, m) ==
    /\ Len(order) = Cardinality(DOMAIN m)
    /\ \A k \in DOMAIN m : \E i \in 1..Len(order) : order[i] = k

RECURSIVE OrdersOf(_)
OrdersOf(S) ==
    IF S = {} THEN {<<>>}
    ELSE UNION {{<<x>> \o p : p \in OrdersOf(S \ {x})} : x \in S}

Orders(m) == OrdersOf(DOMAIN m)

PairsOf(m, order) == [i \in 1..Len(order) |-> <<order[i], m[order[i]]>>]

---------------------------------------------------------------------------
(* reqwest: StatusCode classes and Response::error_for_status *)

is_client_error(status) == status >= 400 /\ status <= 499
is_server_error(status) == status >= 500 /\ status <= 599

error_for_status(response) ==
    IF is_client_error(response.status) \/ is_server_error(response.status)
    THEN Err("reqwest::Error", [kind |-> "status", status |-> response.status])
    ELSE Ok(response)

---------------------------------------------------------------------------
(* HolidayAPI::request.  net is what the network does with the GET: the    *)
(* send fails, or a response with a status and a body arrives.  The three  *)
(* Url calls cannot fail: base_url is an absolute https URL.               *)

request_url(self, endpoint, pairs) ==
    LET url0 == Url_parse(self.base_url)
        url1 == Url_join(url0, to_ascii_lowercase(Endpoint_to_string(endpoint)))
    IN  Url_parse_with_params(Url_to_string(url1) \o S_key_eq \o self.key, pairs)

\* what request returns once the network has answered, and the number of
\* GETs it sent on the way (one: client.get(url).send())
request(self, endpoint, pairs, net) ==
    LET result ==
            IF ~net.send_ok
            THEN Err("reqwest::Error", [kind |-> "send", status |-> 0])
            ELSE LET r == error_for_status(net)
                 IN  IF r.tag = "Ok" THEN Ok(net)
                     ELSE IF r.value.status = 401
                          THEN Err("InvalidOrExpiredKey", self.key)
                          ELSE r
    IN  [result |-> result, sends |-> 1]

---------------------------------------------------------------------------
(* The response structs and serde_json::from_str.  A body is a text that   *)
(* is or is not a JSON object; of an object the model keeps, per top-level *)
(* field, the Rust type its value deserializes to.  Fields a struct does   *)
(* not name are ignored, Option fields may be absent or null.              *)

ResponseFields(ty) ==
    CASE ty = "CountriesRequest" ->
           [requests |-> "APIRequests", status |-> "u32", countries |-> "Vec<Country>"]
      [] ty = "HolidaysRequest" ->
           [requests |-> "APIRequests", status |-> "u32", holidays |-> "Vec<Holiday>"]
      [] ty = "WorkdayRequest" ->
           [requests |-> "APIRequests", status |-> "u32", date |-> "String", weekday |-> "Date"]
      [] ty = "WorkdaysRequest" ->
           [requests |-> "APIRequests", status |-> "u32", workdays |-> "u32"]
      [] ty = "LanguagesRequest" ->
           [requests |-> "APIRequests", status |-> "u32", languages |-> "Vec<Language>"]

OptionFields == {"error", "warning"}

\* a decoder that fills in the fields the body does not have
from_str_default(ty, text) ==
    LET want == ResponseFields(ty)
    IN  IF text.json
        THEN Ok([f \in (DOMAIN want) \cup OptionFields |->
                    IF f \in DOMAIN text.fields THEN text.fields[f] ELSE "null"])
        ELSE Err("serde_json::Error", [kind |-> "decode", status |-> 0])

from_str(ty, text) ==
    LET want == ResponseFields(ty)
        ok == /\ text.json
              /\ \A f \in DOMAIN want :
                    f \in DOMAIN text.fields /\ text.fields[f] = want[f]
              /\ \A f \in OptionFields \cap DOMAIN text.fields :
                    text.fields[f] \in {"String", "null"}
    IN  IF ok
        THEN Ok([f \in (DOMAIN want) \cup OptionFields |->
                    IF f \in DOMAIN text.fields THEN text.fields[f] ELSE "null"])
        ELSE Err("serde_json::Error", [kind |-> "decode", status |-> 0])

\* the field(s) of the response that get returns
Payload(ty, res) ==
    CASE ty = "CountriesRequest" -> <<res.countries>>
      [] ty = "HolidaysRequest" -> <<res.holidays>>
      [] ty = "WorkdayRequest" -> <<res.date, res.weekday>>
      [] ty = "WorkdaysRequest" -> <<res.workdays>>
      [] ty = "LanguagesRequest" -> <<res.languages>>

---------------------------------------------------------------------------
(* The terminal operations.  Each takes self by value.                     *)

\* the Endpoint each builder's get_raw passes to HolidayAPI::request
get_raw_endpoint(ty) ==
    CASE ty = "CountriesRequest" -> "Countries"
      [] ty = "HolidaysRequest" -> "Holidays"
      [] ty = "WorkdayRequest" -> "Workday"
      [] ty = "WorkdaysRequest" -> "Workdays"
      [] ty = "LanguagesRequest" -> "Languages"

\* Response::text: the body, or an error when reading the body fails
Response_text(response) ==
    IF response.text_ok
    THEN Ok(response.body)
    ELSE Err("reqwest::Error", [kind |-> "body", status |-> response.status])

\* result: what the operation returns; sends: the number of GETs it sent;
\* inner: what the operation it calls returned; raw: what get_raw returned
get_raw(self, pairs, net) ==
    LET r == request(self.api, get_raw_endpoint(self.ty), pairs, net)
        result == IF r.result.tag # "Ok" THEN r.result
                  ELSE Response_text(r.result.value)
    IN  [result |-> result, sends |-> r.sends, inner |-> r.result, raw |-> result]

get_full(self, pairs, net) ==
    LET raw == get_raw(self, pairs, net)
    IN  [result |-> IF raw.result.tag # "Ok" THEN raw.result
                    ELSE from_str(self.ty, raw.result.value),
         sends |-> raw.sends,
         inner |-> raw.result,
         raw |-> raw.result]

get(self, pairs, net) ==
    LET full == get_full(self, pairs, net)
    IN  [result |-> IF full.result.tag # "Ok" THEN full.result
                    ELSE Ok(Payload(self.ty, full.result.value)),
         sends |-> full.sends,
         inner |-> full.result,
         raw |-> full.raw]

---------------------------------------------------------------------------
(* Inputs *)

Slots == {1, 2}

\* keys given to the constructors in a run of the whole client
Keys ==
    {DOC_KEY, DOC_KEY \o <<"#","x">>, INVALID_KEY, to_ascii_uppercase(EXPIRED_KEY)}

Versions == {0, 1, 2}

\* arguments of the builder constructors
CountryInputs == {<<"j","p">>}
YearInputs == {2021}
StartInputs == {<<"2","0","2","1","-","0","1","-","0","4">>}
EndInputs == {<<"2","0","2","1","-","0","2","-","0","1">>}
DaysInputs == {-3}

\* arguments of the setters
StrInputs == {<<"u","s">>, <<"a"," ","b">>}
I32Inputs == {12}

ArgsOfType(t) ==
    CASE t = "str" -> StrInputs
      [] t = "i32" -> I32Inputs
      [] t = "bool" -> BOOLEAN

\* response bodies
NotJson == [json |-> FALSE, fields |-> <<>>]
Envelope(ty) == [json |-> TRUE, fields |-> ResponseFields(ty)]
ErrorEnvelope ==
    [json |-> TRUE,
     fields |-> [requests |-> "APIRequests", status |-> "u32", error |-> "String"]]
WarnedEnvelope(ty) ==
    [json |-> TRUE,
     fields |-> [f \in (DOMAIN ResponseFields(ty)) \cup OptionFields |->
                    IF f \in OptionFields THEN "String" ELSE ResponseFields(ty)[f]]]

BuilderTypes ==
    {"CountriesRequest", "HolidaysRequest", "WorkdayRequest", "WorkdaysRequest",
     "LanguagesRequest"}

\* an envelope whose status is a string
MistypedEnvelope(ty) ==
    [json |-> TRUE, fields |-> [ResponseFields(ty) EXCEPT !.status = "String"]]

Bodies ==
    {NotJson, ErrorEnvelope, WarnedEnvelope("HolidaysRequest"),
     MistypedEnvelope("CountriesRequest")}
        \cup {Envelope(ty) : ty \in BuilderTypes}

Response(status, body, text_ok) ==
    [send_ok |-> TRUE, status |-> status, body |-> body, text_ok |-> text_ok]

SendError == [send_ok |-> FALSE, status |-> 0, body |-> NotJson, text_ok |-> FALSE]

NetOutcomes ==
    {SendError, Response(200, NotJson, FALSE)}
        \cup {Response(200, b, TRUE) : b \in Bodies}
        \cup {Response(st, NotJson, TRUE) : st \in {204, 304}}
        \cup {Response(st, ErrorEnvelope, TRUE) : st \in {401, 404, 500}}
        \cup {Response(401, NotJson, TRUE)}

\* keys given to the validator alone: the keys of the tests and examples,
\* with one character replaced or removed, with characters put before or
\* after, and in upper case
MutationChars == {"0", "f", "A", "F", "g", "-", "#"}
AffixChars == {"0", "x", "#"}

RECURSIVE Affixes(_)
Affixes(n) ==
    IF n = 0 THEN {<<>>}
    ELSE Affixes(n - 1) \cup {Append(a, c) : a \in Affixes(n - 1), c \in AffixChars}

BaseKeys == {DOC_KEY, EXPIRED_KEY}

KeyInputs ==
    {<<>>, INVALID_KEY}
        \cup {to_ascii_uppercase(k) : k \in BaseKeys}
        \cup {a \o k \o b : a \in Affixes(MaxAffix), b \in Affixes(MaxAffix), k \in BaseKeys}
        \cup {[k EXCEPT ![i] = c] : k \in BaseKeys, i \in 1..36, c \in MutationChars}
        \cup {SubSeq(k, 1, i - 1) \o SubSeq(k, i + 1, Len(k)) : k \in BaseKeys, i \in 1..36}

KeyVersions == {-2147483647, -1, 0, 1, 2, 10, 2147483647}

---------------------------------------------------------------------------
(* HolidayAPI::new and HolidayAPI::with_version *)

new(key) ==
    LET k == is_valid_key(key)
    IN  IF k.tag # "Ok" THEN k ELSE Ok(construct_api(key, 1))

with_version(key, version) ==
    LET k == is_valid_key(key)
        v == is_valid_version(version)
    IN  IF k.tag # "Ok" THEN k
        ELSE IF v.tag # "Ok" THEN v
        ELSE Ok(construct_api(key, version))

\* HolidayAPI::countries .. languages: the builder a handle gives out
HolidayAPI_countries(self) == CountriesRequest_new(self)
HolidayAPI_holidays(self, country, year) == HolidaysRequest_new(self, country, year)
HolidayAPI_workday(self, country, start, days) == WorkdayRequest_new(self, country, start, days)
HolidayAPI_workdays(self, country, start, days) == WorkdaysRequest_new(self, country, start, days)
HolidayAPI_languages(self) == LanguagesRequest_new(self)

---------------------------------------------------------------------------
(* The state machine: a caller that constructs a handle, takes builders    *)
(* from it into its variables (the slots), calls setters and ends a        *)
(* builder with a terminal operation.  A terminal operation is an async fn *)
(* that suspends once, at client.get(url).send().await: it is a call step, *)
(* which sends the GET, and a return step, which gets what the network     *)
(* made of it.  The caller awaits the operation, so nothing else runs in   *)
(* between.                                                                *)

Op(kind, name, slot, args) == [kind |-> kind, name |-> name, slot |-> slot, args |-> args]

Init ==
    /\ api = None
    /\ ctor_result = None
    /\ builder = [i \in Slots |-> None]
    /\ gets = 0
    /\ in_flight = None
    /\ outcome = None
    /\ setter_calls = 0
    /\ last_op = Op("init", "init", 0, <<>>)

\* the caller keeps the handle of a successful construction
Constructed(r, op) ==
    /\ api = None
    /\ in_flight = None
    /\ ctor_result' = Some(r)
    /\ api' = IF r.tag = "Ok" THEN Some(r.value) ELSE None
    /\ last_op' = op
    /\ outcome' = None
    /\ UNCHANGED <<builder, in_flight, setter_calls>>

DoNew(key) ==
    /\ Constructed(new(key), Op("ctor", "new", 0, <<key, 1>>))
    /\ UNCHANGED gets

\* a constructor that asks the server about the key
DoWithVersionOnline(key, version) ==
    /\ Constructed(with_version(key, version),
                   Op("ctor", "with_version", 0, <<key, version>>))
    /\ gets' = gets + 1

DoWithVersion(key, version) ==
    /\ Constructed(with_version(key, version),
                   Op("ctor", "with_version", 0, <<key, version>>))
    /\ UNCHANGED gets

\* a builder taken from the handle into the free variable i
Built(i, b, name, args) ==
    /\ in_flight = None
    /\ builder[i] = None
    /\ builder' = [builder EXCEPT ![i] = Some(b)]
    /\ last_op' = Op("builder", name, i, args)
    /\ outcome' = None
    /\ UNCHANGED <<api, ctor_result, gets, in_flight, setter_calls>>

DoCountries(i) ==
    /\ api # None
    /\ Built(i, HolidayAPI_countries(api[1]), "countries", <<>>)

DoHolidays(i, country, year) ==
    /\ api # None
    /\ Built(i, HolidayAPI_holidays(api[1], country, year), "holidays", <<country, year>>)

DoWorkday(i, country, start, days) ==
    /\ api # None
    /\ Built(i, HolidayAPI_workday(api[1], country, start, days), "workday",
             <<country, start, days>>)

DoWorkdays(i, country, start, days) ==
    /\ api # None
    /\ Built(i, HolidayAPI_workdays(api[1], country, start, days), "workdays",
             <<country, start, days>>)

DoLanguages(i) ==
    /\ api # None
    /\ Built(i, HolidayAPI_languages(api[1]), "languages", <<>>)

\* a setter that returns the copy it took before the insert
DoSetterStale(i, j, setter, arg) ==
    /\ in_flight = None
    /\ builder[i] # None
    /\ setter_calls < MaxSetterCalls
    /\ setter \in DOMAIN SetterSig(builder[i][1].ty)
    /\ arg \in ArgsOfType(SetterSig(builder[i][1].ty)[setter])
    /\ j # i
    /\ j # 0 => builder[j] = None
    /\ LET self == CallSetter(builder[i][1], setter, arg)
       IN  builder' = [s \in Slots |->
                          IF s = i THEN Some(self)
                          ELSE IF s = j THEN builder[i]
                          ELSE builder[s]]
    /\ setter_calls' = setter_calls + 1
    /\ last_op' = Op("setter", setter, i, <<arg, j>>)
    /\ outcome' = None
    /\ UNCHANGED <<api, ctor_result, gets, in_flight>>

\* builder[i].<setter>(arg): self is changed, and the copy returned is kept
\* in the free variable j or dropped (j = 0)
DoSetter(i, j, setter, arg) ==
    /\ in_flight = None
    /\ builder[i] # None
    /\ setter_calls < MaxSetterCalls
    /\ setter \in DOMAIN SetterSig(builder[i][1].ty)
    /\ arg \in ArgsOfType(SetterSig(builder[i][1].ty)[setter])
    /\ j # i
    /\ j # 0 => builder[j] = None
    /\ LET self == CallSetter(builder[i][1], setter, arg)
       IN  builder' = [s \in Slots |->
                          IF s = i \/ s = j THEN Some(self) ELSE builder[s]]
    /\ setter_calls' = setter_calls + 1
    /\ last_op' = Op("setter", setter, i, <<arg, j>>)
    /\ outcome' = None
    /\ UNCHANGED <<api, ctor_result, gets, in_flight>>

\* the call of a terminal operation on builder[i], up to its await: the
\* builder is consumed and the GET is sent.  order is the order in which
\* the HashMap hands out its entries.
Call(i, name, order) ==
    /\ in_flight = None
    /\ gets < MaxGets
    /\ builder[i] # None
    /\ IsOrder(order, builder[i][1].parameters)
    /\ LET self == builder[i][1]
           pairs == PairsOf(self.parameters, order)
       IN  in_flight' = Some([op |-> name, self |-> self, pairs |-> pairs,
                              url |-> request_url(self.api, get_raw_endpoint(self.ty), pairs)])
    /\ builder' = [builder EXCEPT ![i] = None]
    /\ gets' = gets + 1
    /\ outcome' = None
    /\ last_op' = Op("call", name, i, <<>>)
    /\ UNCHANGED <<api, ctor_result, setter_calls>>

DoGetRaw(i, order) == Call(i, "get_raw", order)
DoGetFull(i, order) == Call(i, "get_full", order)
DoGet(i, order) == Call(i, "get", order)

\* the operation in flight, run on what the network made of its GET
Run(f, net) ==
    CASE f.op = "get_raw" -> get_raw(f.self, f.pairs, net)
      [] f.op = "get_full" -> get_full(f.self, f.pairs, net)
      [] f.op = "get" -> get(f.self, f.pairs, net)

\* the await ends and the operation returns; a GET the operation sent
\* beyond the one it awaited is counted here
Return(net) ==
    /\ in_flight # None
    /\ LET f == in_flight[1]
           r == Run(f, net)
       IN  /\ outcome' = Some([op |-> f.op, self |-> f.self, net |-> net,
                               result |-> r.result, inner |-> r.inner,
                               raw |-> r.raw])
           /\ gets' = gets + r.sends - 1
           /\ last_op' = Op("return", f.op, 0, <<>>)
    /\ in_flight' = None
    /\ UNCHANGED <<api, ctor_result, builder, setter_calls>>

SetterNames == UNION {DOMAIN SetterSig(ty) : ty \in BuilderTypes}

\* the arguments the caller may give to builder[i].<setter>
ArgsFor(i, setter) ==
    IF builder[i] # None /\ setter \in DOMAIN SetterSig(builder[i][1].ty)
    THEN ArgsOfType(SetterSig(builder[i][1].ty)[setter])
    ELSE {}

OrdersFor(i) == IF builder[i] # None THEN Orders(builder[i][1].parameters) ELSE {}

\* the whole client: construction, one builder variable, a chain of setter
\* calls and a terminal operation
Next ==
    \/ \E key \in Keys : DoNew(key)
    \/ \E key \in Keys, version \in Versions : DoWithVersion(key, version)
    \/ DoCountries(1)
    \/ \E country \in CountryInputs, year \in YearInputs : DoHolidays(1, country, year)
    \/ \E country \in CountryInputs, start \in StartInputs, days \in DaysInputs :
          DoWorkday(1, country, start, days)
    \/ \E country \in CountryInputs, start \in StartInputs, days \in EndInputs :
          DoWorkdays(1, country, start, days)
    \/ DoLanguages(1)
    \/ \E setter \in SetterNames : \E arg \in ArgsFor(1, setter) :
          setter_calls < MaxChain /\ DoSetter(1, 0, setter, arg)
    \/ \E order \in OrdersFor(1) : DoGetRaw(1, order)
    \/ \E order \in OrdersFor(1) : DoGetFull(1, order)
    \/ \E order \in OrdersFor(1) : DoGet(1, order)
    \/ \E net \in NetOutcomes : Return(net)

Spec == Init /\ [][Next]_vars

\* the builders alone: a caller with two builder variables, which keeps or
\* drops the copy a setter returns
NextBuild ==
    \/ \E key \in Keys : DoNew(key)
    \/ \E key \in Keys, version \in Versions : DoWithVersion(key, version)
    \/ \E i \in Slots : DoCountries(i)
    \/ \E i \in Slots, country \in CountryInputs, year \in YearInputs :
          DoHolidays(i, country, year)
    \/ \E i \in Slots, country \in CountryInputs, start \in StartInputs, days \in DaysInputs :
          DoWorkday(i, country, start, days)
    \/ \E i \in Slots, country \in CountryInputs, start \in StartInputs, days \in EndInputs :
          DoWorkdays(i, country, start, days)
    \/ \E i \in Slots : DoLanguages(i)
    \/ \E i \in Slots, j \in Slots \cup {0}, setter \in SetterNames :
          \E arg \in ArgsFor(i, setter) : DoSetter(i, j, setter, arg)

SpecBuild == Init /\ [][NextBuild]_vars

\* one builder and a chain of setter calls on it
NextChain ==
    \/ \E key \in Keys : DoNew(key)
    \/ \E key \in Keys, version \in Versions : DoWithVersion(key, version)
    \/ DoCountries(1)
    \/ \E country \in CountryInputs, year \in YearInputs : DoHolidays(1, country, year)
    \/ \E country \in CountryInputs, start \in StartInputs, days \in DaysInputs :
          DoWorkday(1, country, start, days)
    \/ \E country \in CountryInputs, start \in StartInputs, days \in EndInputs :
          DoWorkdays(1, country, start, days)
    \/ DoLanguages(1)
    \/ \E setter \in SetterNames : \E arg \in ArgsFor(1, setter) :
          DoSetter(1, 0, setter, arg)

SpecChain == Init /\ [][NextChain]_vars

\* a builder, the copies its setters return, and a terminal operation on
\* the builder or on a copy.  The caller calls the setters country, month
\* and pretty on a handle made from the key of the doc examples; the
\* network fails or answers 200.
CopySetters == {"country", "month", "pretty"}

CopyNetOutcomes == {SendError, Response(200, NotJson, TRUE)}

CopyKeys == {DOC_KEY, INVALID_KEY}

NextCopy ==
    \/ \E key \in CopyKeys : DoNew(key)
    \/ \E key \in CopyKeys, version \in Versions : DoWithVersion(key, version)
    \/ DoCountries(1)
    \/ \E country \in CountryInputs, year \in YearInputs : DoHolidays(1, country, year)
    \/ \E country \in CountryInputs, start \in StartInputs, days \in DaysInputs :
          DoWorkday(1, country, start, days)
    \/ \E country \in CountryInputs, start \in StartInputs, days \in EndInputs :
          DoWorkdays(1, country, start, days)
    \/ DoLanguages(1)
    \/ \E i \in Slots, j \in Slots \cup {0}, setter \in CopySetters :
          \E arg \in ArgsFor(i, setter) : DoSetter(i, j, setter, arg)
    \/ \E i \in Slots : \E order \in OrdersFor(i) : DoGetRaw(i, order)
    \/ \E i \in Slots : \E order \in OrdersFor(i) : DoGetFull(i, order)
    \/ \E i \in Slots : \E order \in OrdersFor(i) : DoGet(i, order)
    \/ \E net \in CopyNetOutcomes : Return(net)

SpecCopy == Init /\ [][NextCopy]_vars

\* the first constructor call alone, on the keys and versions given to the
\* validator
NextKey ==
    \/ \E key \in KeyInputs : ctor_result = None /\ DoNew(key)
    \/ \E key \in KeyInputs, version \in KeyVersions :
          ctor_result = None /\ DoWithVersion(key, version)

SpecKey == Init /\ [][NextKey]_vars

---------------------------------------------------------------------------
(* Key validation and construction *)

HexAnyCase == HexLower \cup {"A", "B", "C", "D", "E", "F"}

\* the key is, in its entirety, 8-4-4-4-12 hexadecimal digits with hyphens
IsWholeUuid(key) ==
    /\ Len(key) = 36
    /\ \A i \in 1..36 :
          IF i \in {9, 14, 19, 24} THEN key[i] = "-" ELSE key[i] \in HexAnyCase

\* C1: new(key) returns Ok exactly for the keys that are, in their entirety,
\* five hyphen-separated groups of 8-4-4-4-12 hexadecimal digits in either
\* case, and InvalidKeyFormat carrying the key for every other string.
C1_KeyValidatedExactly ==
    (last_op.kind = "ctor" /\ last_op.name = "new") =>
        LET key == last_op.args[1]
        IN  /\ IsWholeUuid(key) => ctor_result[1].tag = "Ok"
            /\ ~IsWholeUuid(key) => ctor_result[1] = Err("InvalidKeyFormat", key)

V1_BASE_URL == <<"h","t","t","p","s",":","/","/","h","o","l","i","d","a","y","a","p","i",".","c","o","m","/","v","1","/">>

C3_NoGetByConstruction ==
    /\ [](api = None =>
            /\ gets = 0
            /\ in_flight = None
            /\ \A i \in Slots : builder[i] = None)
    /\ []((ctor_result # None /\ ctor_result[1].tag # "Ok") => api = None)
    /\ [][/\ last_op'.kind = "ctor" => gets' = gets /\ in_flight' = in_flight
          /\ gets' > gets =>
                /\ api # None
                /\ ctor_result = Some(Ok(api[1]))]_vars

\* a construction that has just failed on the version
C3_Witness ==
    /\ last_op.kind = "ctor"
    /\ ctor_result # None
    /\ ctor_result[1].tag = "InvalidVersion"
    /\ api = None
    /\ gets = 0
    /\ \A i \in Slots : builder[i] = None

---------------------------------------------------------------------------
(* Dispatch and decoding *)

Is2xx(status) == status >= 200 /\ status <= 299

\* C4: for a response that has arrived, the status alone decides what
\* request returns: 401 gives InvalidOrExpiredKey carrying the handle's
\* key, every other status outside 200..299 gives the transport error,
\* every status in 200..299 gives Ok with the response as it is, and
\* get_raw then returns the body unchanged, whatever the envelope holds.
C4_StatusAloneDecides ==
    (outcome # None /\ outcome[1].op = "get_raw" /\ outcome[1].net.send_ok) =>
        LET o == outcome[1]
            status == o.net.status
        IN  /\ status = 401 =>
                  /\ o.inner = Err("InvalidOrExpiredKey", o.self.api.key)
                  /\ o.result = o.inner
            /\ (status # 401 /\ ~Is2xx(status)) =>
                  /\ o.inner.tag = "reqwest::Error"
                  /\ o.result = o.inner
            /\ Is2xx(status) => o.inner = Ok(o.net)
            /\ (Is2xx(status) /\ o.net.text_ok) => o.result = Ok(o.net.body)

\* the body is a JSON object with the fields of the builder's response struct
MatchesShape(ty, body) ==
    /\ body.json
    /\ \A f \in DOMAIN ResponseFields(ty) :
          f \in DOMAIN body.fields /\ body.fields[f] = ResponseFields(ty)[f]

\* C5: for a 2xx response whose body has been read and is not JSON or not
\* of the shape of the builder's response struct, get_raw returns the body
\* unchanged and get_full and get fail with the decode error; a decode error
\* is returned only by get_full and get, only after the GET has been
\* answered and get_raw has returned Ok.
C5_DecodeErrorOnlyFromBody ==
    outcome # None =>
        LET o == outcome[1]
            answered == o.net.send_ok /\ Is2xx(o.net.status) /\ o.net.text_ok
        IN  /\ (answered /\ ~MatchesShape(o.self.ty, o.net.body)) =>
                  /\ o.raw = Ok(o.net.body)
                  /\ o.op = "get_raw" => o.result = Ok(o.net.body)
                  /\ o.op \in {"get_full", "get"} => o.result.tag = "serde_json::Error"
            /\ o.result.tag = "serde_json::Error" =>
                  /\ o.op \in {"get_full", "get"}
                  /\ o.net.send_ok
                  /\ o.raw = Ok(o.net.body)
                  /\ in_flight = None
                  /\ gets >= 1

\* get_full on a 200 response with a JSON envelope that lacks the payload
C5_Witness ==
    /\ outcome # None
    /\ outcome[1].op = "get_full"
    /\ outcome[1].net = Response(200, ErrorEnvelope, TRUE)
    /\ outcome[1].result.tag = "serde_json::Error"
    /\ outcome[1].raw = Ok(ErrorEnvelope)

---------------------------------------------------------------------------
(* The setters *)

\* the names a setter call writes on a builder whose mapping is empty
WrittenNames(b, setter, arg) ==
    DOMAIN CallSetter([b EXCEPT !.parameters = HashMap_new], setter, arg).parameters

Then(b, setter, arg) == CallSetter(b, setter, arg)

\* C6: on every builder, two setter calls that write different parameter
\* names give the same parameter mapping in either order; on a builder as
\* its constructor returns it, three setter calls on pairwise different
\* names give the same mapping in each of their six orders.
C6_SettersCommute ==
    builder[1] # None =>
        LET b == builder[1][1]
            sig == SetterSig(b.ty)
        IN  \A s1 \in DOMAIN sig : \A a1 \in ArgsOfType(sig[s1]) :
            LET b1 == Then(b, s1, a1)
                w1 == WrittenNames(b, s1, a1)
            IN  \A s2 \in DOMAIN sig : \A a2 \in ArgsOfType(sig[s2]) :
                LET b2 == Then(b, s2, a2)
                    w2 == WrittenNames(b, s2, a2)
                    b12 == Then(b1, s2, a2)
                    b21 == Then(b2, s1, a1)
                IN  w1 \cap w2 = {} =>
                        /\ b12.parameters = b21.parameters
                        /\ setter_calls = 0 =>
                              \A s3 \in DOMAIN sig : \A a3 \in ArgsOfType(sig[s3]) :
                                  WrittenNames(b, s3, a3) \cap (w1 \cup w2) = {} =>
                                      LET m == Then(b12, s3, a3).parameters
                                          b3 == Then(b, s3, a3)
                                      IN  /\ m = Then(Then(b1, s3, a3), s2, a2).parameters
                                          /\ m = Then(b21, s3, a3).parameters
                                          /\ m = Then(Then(b2, s3, a3), s1, a1).parameters
                                          /\ m = Then(Then(b3, s1, a1), s2, a2).parameters
                                          /\ m = Then(Then(b3, s2, a2), s1, a1).parameters

\* pretty(true) and then public(true) on a CountriesRequest
C6_Witness ==
    /\ builder[1] # None
    /\ builder[1][1].ty = "CountriesRequest"
    /\ setter_calls = 2
    /\ last_op.kind = "setter"
    /\ last_op.name = "public"
    /\ DOMAIN builder[1][1].parameters = {S_public, S_pretty}
    /\ builder[1][1].parameters[S_public] = S_true
    /\ builder[1][1].parameters[S_pretty] = S_true

\* the parameter name of each setter
SetterKey(setter) ==
    CASE setter = "country" -> <<"c","o","u","n","t","r","y">>
      [] setter = "search" -> <<"s","e","a","r","c","h">>
      [] setter = "public" -> <<"p","u","b","l","i","c">>
      [] setter = "pretty" -> <<"p","r","e","t","t","y">>
      [] setter = "month" -> <<"m","o","n","t","h">>
      [] setter = "day" -> <<"d","a","y">>
      [] setter = "subdivisions" -> <<"s","u","b","d","i","v","i","s","i","o","n","s">>
      [] setter = "language" -> <<"l","a","n","g","u","a","g","e">>
      [] setter = "previous" -> <<"p","r","e","v","i","o","u","s">>
      [] setter = "upcoming" -> <<"u","p","c","o","m","i","n","g">>

\* the string form of a setter's argument
StringForm(arg, t) ==
    CASE t = "bool" -> (IF arg THEN <<"t","r","u","e">> ELSE <<"f","a","l","s","e">>)
      [] t = "i32" -> I32ToString(arg)
      [] t = "str" -> arg

\* C7: a setter call on a builder succeeds and changes the parameter
\* mapping in exactly one key, the setter's name: afterwards that key holds
\* the string form of the argument (true / false for a boolean), whether or
\* not it was there before; every other entry, the builder's handle and the
\* caller's handle are as before, and no key is gone.
C7_SetterWritesOneKey ==
    [][last_op'.kind = "setter" =>
          LET i == last_op'.slot
              j == last_op'.args[2]
              arg == last_op'.args[1]
              k == SetterKey(last_op'.name)
          IN  /\ builder[i] # None
              /\ builder'[i] # None
              /\ LET before == builder[i][1]
                     after == builder'[i][1]
                 IN  /\ DOMAIN after.parameters = (DOMAIN before.parameters) \cup {k}
                     /\ after.parameters[k]
                           = StringForm(arg, SetterSig(before.ty)[last_op'.name])
                     /\ \A x \in (DOMAIN before.parameters) \ {k} :
                           after.parameters[x] = before.parameters[x]
                     /\ after.api = before.api
                     /\ after.ty = before.ty
              /\ api' = api
              /\ \A s \in Slots \ {i, j} : builder'[s] = builder[s]]_vars

\* upcoming(true) on a HolidaysRequest on which previous(true) was called
C7_Witness ==
    /\ last_op.kind = "setter"
    /\ last_op.name = "upcoming"
    /\ builder[last_op.slot] # None
    /\ builder[last_op.slot][1].ty = "HolidaysRequest"
    /\ DOMAIN builder[last_op.slot][1].parameters
          = {S_country, S_year, S_previous, S_upcoming}
    /\ builder[last_op.slot][1].parameters[S_previous] = S_true
    /\ builder[last_op.slot][1].parameters[S_upcoming] = S_true

---------------------------------------------------------------------------
(* The URL, the handle and the single GET *)

\* the lowercase name of the endpoint of each builder
EndpointPath(ty) ==
    CASE ty = "CountriesRequest" -> <<"c","o","u","n","t","r","i","e","s">>
      [] ty = "HolidaysRequest" -> <<"h","o","l","i","d","a","y","s">>
      [] ty = "WorkdayRequest" -> <<"w","o","r","k","d","a","y">>
      [] ty = "WorkdaysRequest" -> <<"w","o","r","k","d","a","y","s">>
      [] ty = "LanguagesRequest" -> <<"l","a","n","g","u","a","g","e","s">>

\* &name=value for each pair, urlencoded
RECURSIVE PairsText(_)
PairsText(pairs) ==
    IF pairs = <<>> THEN <<>>
    ELSE <<"&">> \o byte_serialize(Head(pairs)[1]) \o <<"=">>
            \o byte_serialize(Head(pairs)[2]) \o PairsText(Tail(pairs))

\* C8: the URL a terminal operation requests is the handle's base_url
\* followed by the lowercase name of the builder's endpoint, with the query
\* key=<handle key> followed by one name=value pair for each entry of the
\* builder's parameter mapping, and nothing else; for a CountriesRequest
\* with an empty mapping the query is key=<handle key> alone.
C8_UrlIsBaseEndpointKeyParams ==
    in_flight # None =>
        LET f == in_flight[1]
            m == f.self.parameters
            key_pair == <<"k","e","y","=">> \o f.self.api.key
        IN  /\ f.url.prefix = f.self.api.base_url \o EndpointPath(f.self.ty)
            /\ Len(f.pairs) = Cardinality(DOMAIN m)
            /\ \A k \in DOMAIN m : \E n \in 1..Len(f.pairs) : f.pairs[n] = <<k, m[k]>>
            /\ f.url.query = Some(key_pair \o PairsText(f.pairs))
            /\ f.url.fragment = None
            /\ (f.self.ty = "CountriesRequest" /\ m = HashMap_new) =>
                  Url_to_string(f.url)
                      = f.self.api.base_url \o EndpointPath(f.self.ty) \o <<"?">> \o key_pair

\* C9: the handle the caller holds is the one the successful construction
\* returned and no step changes it; the handle in every builder, in the
\* operation in flight and in the operation that has ended is equal to it.
C9_HandleNeverChanges ==
    /\ [](api # None =>
            /\ ctor_result = Some(Ok(api[1]))
            /\ \A i \in Slots : builder[i] # None => builder[i][1].api = api[1]
            /\ in_flight # None => in_flight[1].self.api = api[1]
            /\ outcome # None => outcome[1].self.api = api[1])
    /\ [][api # None => api' = api /\ ctor_result' = ctor_result]_vars

\* a HolidaysRequest with a setter called on it has ended in get_full
C9_Witness ==
    /\ api # None
    /\ outcome # None
    /\ outcome[1].op = "get_full"
    /\ outcome[1].self.ty = "HolidaysRequest"
    /\ setter_calls >= 1
    /\ outcome[1].self.api = api[1]
    /\ api[1].key = DOC_KEY

\* C10: a terminal operation that has ended has returned an error whenever
\* the GET failed in the network, was answered with 401 or with another
\* status outside 200..299, or the body could not be decoded; get_raw
\* returns the error of the dispatch, get_full the error of get_raw and get
\* the error of get_full, and no operation is left in flight.
C10_FailureIsReturned ==
    outcome # None =>
        LET o == outcome[1]
            failed == ~o.net.send_ok \/ ~Is2xx(o.net.status)
            undecodable == o.op # "get_raw" /\ ~MatchesShape(o.self.ty, o.net.body)
        IN  /\ in_flight = None
            /\ failed => o.result.tag # "Ok"
            /\ (~failed /\ o.net.text_ok /\ undecodable) =>
                  o.result.tag = "serde_json::Error"
            /\ o.inner.tag # "Ok" => o.result = o.inner
            /\ o.raw.tag # "Ok" => o.result = o.raw

---------------------------------------------------------------------------
(* Copies, the order of the checks, and the mandatory parameters *)

\* C11: a setter call on a builder leaves in the builder the mapping with
\* the setter's key written, and the copy it returns is equal to the builder
\* right after the call; a setter call on one builder changes no other
\* builder the caller holds, so not the copy an earlier call returned nor
\* the builder the copy was taken from; a terminal operation on one builder
\* consumes that builder, sends the pairs of that builder's mapping and no
\* other pair, and changes no other builder.
C11_CopyIsIndependent ==
    [][/\ last_op'.kind = "setter" =>
             LET i == last_op'.slot
                 j == last_op'.args[2]
                 arg == last_op'.args[1]
                 k == SetterKey(last_op'.name)
             IN  /\ builder[i] # None
                 /\ builder'[i] # None
                 /\ builder'[i][1].parameters =
                       [x \in (DOMAIN builder[i][1].parameters) \cup {k} |->
                           IF x = k
                           THEN StringForm(arg, SetterSig(builder[i][1].ty)[last_op'.name])
                           ELSE builder[i][1].parameters[x]]
                 /\ j # 0 => builder[j] = None /\ builder'[j] = builder'[i]
                 /\ \A s \in Slots \ {i, j} : builder'[s] = builder[s]
       /\ last_op'.kind = "call" =>
             LET i == last_op'.slot
             IN  /\ builder[i] # None
                 /\ in_flight' # None
                 /\ builder'[i] = None
                 /\ \A s \in Slots \ {i} : builder'[s] = builder[s]
                 /\ LET f == in_flight'[1]
                        m == builder[i][1].parameters
                        q == f.url.query[1]
                        sent == PairsText(f.pairs)
                    IN  /\ f.self = builder[i][1]
                        /\ Len(f.pairs) = Cardinality(DOMAIN m)
                        /\ \A x \in DOMAIN m :
                              \E n \in 1..Len(f.pairs) : f.pairs[n] = <<x, m[x]>>
                        /\ f.url.query # None
                        /\ Len(q) >= Len(sent)
                        /\ SubSeq(q, Len(q) - Len(sent) + 1, Len(q)) = sent
                        /\ \A n \in 1..(Len(q) - Len(sent)) : q[n] # "&"]_vars

\* get on a HolidaysRequest with month set, while the caller holds the copy
\* month returned, on which pretty was called afterwards
C11_Witness ==
    /\ in_flight # None
    /\ last_op.kind = "call"
    /\ last_op.slot = 1
    /\ builder[1] = None
    /\ builder[2] # None
    /\ in_flight[1].self.ty = "HolidaysRequest"
    /\ DOMAIN in_flight[1].self.parameters = {S_country, S_year, S_month}
    /\ DOMAIN builder[2][1].parameters = {S_country, S_year, S_month, S_pretty}

\* C12: with_version returns InvalidKeyFormat carrying the key for every
\* key that is not in its entirety a UUID, whatever the version; it returns
\* InvalidVersion only for a key that is a UUID and a version other than 1;
\* a failed construction returns one of the two errors and leaves no handle.
C12_KeyCheckedBeforeVersion ==
    (last_op.kind = "ctor" /\ last_op.name = "with_version") =>
        LET key == last_op.args[1]
            version == last_op.args[2]
        IN  /\ ~IsWholeUuid(key) => ctor_result[1] = Err("InvalidKeyFormat", key)
            /\ ctor_result[1].tag = "InvalidVersion" =>
                  IsWholeUuid(key) /\ version # 1
            /\ ctor_result[1].tag # "Ok" =>
                  /\ ctor_result[1].tag \in {"InvalidKeyFormat", "InvalidVersion"}
                  /\ api = None

\* the keys of the mandatory parameters of each builder
MandatoryKeys(ty) ==
    CASE ty = "CountriesRequest" -> {}
      [] ty = "HolidaysRequest" -> {<<"c","o","u","n","t","r","y">>, <<"y","e","a","r">>}
      [] ty = "WorkdayRequest" ->
           {<<"c","o","u","n","t","r","y">>, <<"y","e","a","r">>, <<"d","a","y","s">>}
      [] ty = "WorkdaysRequest" ->
           {<<"c","o","u","n","t","r","y">>, <<"y","e","a","r">>, <<"e","n","d">>}
      [] ty = "LanguagesRequest" -> {}

\* the mapping a builder starts with, from the arguments of its constructor
MandatoryMapping(name, args) ==
    CASE name = "countries" -> <<>>
      [] name = "languages" -> <<>>
      [] name = "holidays" ->
           [k \in MandatoryKeys("HolidaysRequest") |->
               IF k = <<"c","o","u","n","t","r","y">> THEN args[1]
               ELSE I32ToString(args[2])]
      [] name = "workday" ->
           [k \in MandatoryKeys("WorkdayRequest") |->
               IF k = <<"c","o","u","n","t","r","y">> THEN args[1]
               ELSE IF k = <<"y","e","a","r">> THEN args[2]
               ELSE I32ToString(args[3])]
      [] name = "workdays" ->
           [k \in MandatoryKeys("WorkdaysRequest") |->
               IF k = <<"c","o","u","n","t","r","y">> THEN args[1]
               ELSE IF k = <<"y","e","a","r">> THEN args[2]
               ELSE args[3]]

\* C13: a builder starts with exactly its mandatory parameters under the
\* keys country, year (the year of Holidays, the start date of Workday and
\* Workdays), days and end, with the values given to its constructor, and
\* Countries and Languages start empty; every builder the caller holds has
\* its mandatory keys; a setter call changes none of them; a terminal
\* operation sends each of them with the value the builder holds.
C13_MandatoryParametersKept ==
    /\ [](\A i \in Slots :
            builder[i] # None =>
                MandatoryKeys(builder[i][1].ty) \subseteq DOMAIN builder[i][1].parameters)
    /\ [][/\ last_op'.kind = "builder" =>
                /\ builder'[last_op'.slot] # None
                /\ builder'[last_op'.slot][1].parameters
                      = MandatoryMapping(last_op'.name, last_op'.args)
          /\ last_op'.kind = "setter" =>
                LET i == last_op'.slot
                IN  \A k \in MandatoryKeys(builder[i][1].ty) :
                        /\ k \in DOMAIN builder'[i][1].parameters
                        /\ builder'[i][1].parameters[k] = builder[i][1].parameters[k]
          /\ last_op'.kind = "call" =>
                LET i == last_op'.slot
                    f == in_flight'[1]
                IN  \A k \in MandatoryKeys(builder[i][1].ty) :
                        \E n \in 1..Len(f.pairs) :
                            f.pairs[n] = <<k, builder[i][1].parameters[k]>>]_vars

\* get_raw on a WorkdayRequest on which pretty was called: the start date
\* is sent under year
C13_Witness ==
    /\ in_flight # None
    /\ last_op.kind = "call"
    /\ in_flight[1].self.ty = "WorkdayRequest"
    /\ DOMAIN in_flight[1].self.parameters = {S_country, S_year, S_days, S_pretty}
    /\ in_flight[1].self.parameters[S_year] = <<"2","0","2","1","-","0","1","-","0","4">>
    /\ in_flight[1].self.parameters[S_days] = <<"-","3">>
    /\ \E n \in 1..Len(in_flight[1].pairs) :
          in_flight[1].pairs[n] = <<S_year, <<"2","0","2","1","-","0","1","-","0","4">>>>

====
